---- MODULE Spec2Model ----
(***************************************************************************)
(* The Ploy rule engine: GameState of src/game_state.py over the tables of *)
(* src/pieces.py.  The legal-move walk and the rotation step, which        *)
(* game_state.py elides ("rest of the methods remain similar"), are taken  *)
(* from the legacy engine src/backup/ploy_game.py; the guards of           *)
(* get_valid_moves, is_valid_move and rotate_piece, which exist in no      *)
(* source file, are taken from sections 4.3-4.5 of the specification.      *)
(***************************************************************************)
EXTENDS Integers, Sequences, FiniteSets, TLC

\* ------------------------------------------------------------------ bounds
\* Number of successful state-changing operations explored.
MaxSteps == 4

\* Number of state-changing events explored in the legacy window.
MaxEvents == 14

\* ------------------------------------------------------- src/pieces.py
BOARD_SIZE == 9

PIECE_TYPES == [Commander |-> 1, Lance |-> 3, Probe |-> 2, Shield |-> 1]

DIRECTIONS == <<"N", "NE", "E", "SE", "S", "SW", "W", "NW">>

\* (row_increment, column_increment)
DIRECTION_VECTORS ==
    [N  |-> <<-1, 0>>, NE |-> <<-1, 1>>, E  |-> <<0, 1>>,  SE |-> <<1, 1>>,
     S  |-> <<1, 0>>,  SW |-> <<1, -1>>, W  |-> <<0, -1>>, NW |-> <<-1, -1>>]

\* ------------------------------------------------------------ data model
Rows  == 0 .. (BOARD_SIZE - 1)
Cells == Rows \X Rows

\* An empty board cell (Python None).
None == [id |-> 0, type |-> "None", position |-> "None", orientation |-> "None"]

\* The seats of a game mode (GameState.__init__, self.players).
Seats(mode) ==
    IF mode = "4player" THEN {"bottom", "top", "left", "right"}
                        ELSE {"bottom", "top"}

VARIABLES
    board,                    \* self.board: cell -> piece record or None
    captured,                 \* players[seat].captured_pieces
    last_action,              \* self.last_action: "None", "move", "rotate"
    is_bottom_on_top,         \* self.is_bottom_on_top
    game_mode,                \* self.game_mode
    current_player_position,  \* self.current_player_position
    op,                       \* name of the last call made on the engine
    ret,                      \* what that call returned, as Python prints it
    exit_at,                  \* the return statement that call left by
    turn_log,                 \* history: successful actions of this turn
    steps,                    \* number of successful operations so far
    board_state,              \* PloyGame.board_state[row][col]["piece"]
    selected_piece,           \* PloyGame.selected_piece, by the cell it is on
    current_player,           \* PloyGame.current_player: "green", "orange"
    valid_moves,              \* PloyGame.valid_moves
    selected_cell,            \* PloyGameUI: (selected_row, selected_col)
    highlighted               \* PloyGameUI.valid_moves

engine == <<board, captured, last_action, is_bottom_on_top, game_mode,
            current_player_position>>
legacy == <<board_state, selected_piece, current_player, valid_moves>>
window == <<selected_cell, highlighted>>
vars == <<board, captured, last_action, is_bottom_on_top, game_mode,
          current_player_position, op, exit_at, ret, turn_log, steps,
          board_state, selected_piece, current_player, valid_moves,
          selected_cell, highlighted>>

\* ------------------------------------------------------ initialization
\* Mutant: a mistyped entry of the table.
orientation_map_mistyped ==
    [N  |-> "SE", S  |-> "NW", E  |-> "W",  W  |-> "E",
     NE |-> "SW", SW |-> "NE", NW |-> "SE", SE |-> "NW"]

\* get_piece_orientation
orientation_map ==
    [N  |-> "S",  S  |-> "N",  E  |-> "W",  W  |-> "E",
     NE |-> "SW", SW |-> "NE", NW |-> "SE", SE |-> "NW"]

get_piece_orientation(base_orientation, position, flipped, mode) ==
    LET needs_flip ==
            \/ (flipped /\ position = "bottom")
            \/ (~flipped /\ position = "top")
            \/ (position \in {"left", "right"} /\ mode = "4player")
    IN  IF needs_flip THEN orientation_map[base_orientation]
                      ELSE base_orientation

\* place_piece: the cell is overwritten with a new piece object.
place_piece(b, row, col, position, piece_type, orientation, id) ==
    [b EXCEPT ![<<row, col>>] =
        [id |-> id, type |-> piece_type, position |-> position,
         orientation |-> orientation]]

\* Objects are created in a fixed order; every object of an earlier
\* initialization is unreachable once the grid is replaced and the capture
\* lists are emptied, so the identities 1..20 are reused.
FirstId(position) == IF position = "bottom" THEN 1 ELSE 11

\* Mutant: the row step is not reversed on a flipped board.
row_modifier_unflipped(position, flipped) ==
    IF position = "bottom" THEN 1 ELSE -1

\* The row step from a seat's home row to its Shield row.
row_modifier(position, flipped) ==
    LET m == IF position = "bottom" THEN 1 ELSE -1
    IN  IF flipped THEN m * (-1) ELSE m

_place_player_pieces(b, position, base_row, flipped, mode) ==
    LET direction    == IF position = "bottom" THEN "S" ELSE "N"
        o            == get_piece_orientation(direction, position, flipped, mode)
        i            == FirstId(position)
        shield_row   == base_row + row_modifier(position, flipped)
        b1  == place_piece(b,  base_row,   4, position, "Commander", o, i)
        b2  == place_piece(b1, shield_row, 2, position, "Shield", o, i + 1)
        b3  == place_piece(b2, shield_row, 4, position, "Shield", o, i + 2)
        b4  == place_piece(b3, shield_row, 6, position, "Shield", o, i + 3)
        b5  == place_piece(b4, base_row,   1, position, "Probe",  o, i + 4)
        b6  == place_piece(b5, base_row,   3, position, "Probe",  o, i + 5)
        b7  == place_piece(b6, base_row,   5, position, "Probe",  o, i + 6)
        b8  == place_piece(b7, base_row,   7, position, "Probe",  o, i + 7)
        b9  == place_piece(b8, base_row,   0, position, "Lance",  o, i + 8)
        b10 == place_piece(b9, base_row,   8, position, "Lance",  o, i + 9)
    IN  b10

\* _place_side_player_pieces: "pass".
_place_side_player_pieces(b) == b

EmptyBoard == [c \in Cells |-> None]

\* The grid built by initialize_board for a given orientation flag and mode.
InitialBoard(flipped, mode) ==
    LET bottom_base == IF flipped THEN 8 ELSE 0
        top_base    == IF flipped THEN 0 ELSE 8
        b1 == _place_player_pieces(EmptyBoard, "bottom", bottom_base, flipped, mode)
        b2 == _place_player_pieces(b1, "top", top_base, flipped, mode)
    IN  IF mode = "4player" THEN _place_side_player_pieces(b2) ELSE b2

NoCaptures(mode) == [s \in Seats(mode) |-> <<>>]

\* ------------------------------------------------- the legacy window
\* PloyGame of backup/ploy_game.py keeps its own board, turn and selection.
\* Its direction table holds (x, y) pairs: x runs along the columns, y along
\* the rows.
PloyGame_DIRECTION_VECTORS ==
    [N  |-> <<0, -1>>, NE |-> <<1, -1>>,  E  |-> <<1, 0>>,  SE |-> <<1, 1>>,
     S  |-> <<0, 1>>,  SW |-> <<-1, 1>>,  W  |-> <<-1, 0>>, NW |-> <<-1, -1>>]

\* An empty cell of board_state, and no piece selected.
NoPiece ==
    [type |-> "None", color |-> "None", row |-> -1, col |-> -1,
     orientation |-> "None"]

NoSelection == <<-1, -1>>

PloyGame_add_piece(b, row, col, color, piece_type, orientation) ==
    [b EXCEPT ![<<row, col>>] =
        [type |-> piece_type, color |-> color, row |-> row, col |-> col,
         orientation |-> orientation]]

\* The add_piece calls of setup_pieces, in order.
PloyGame_setup_calls ==
    << <<0, 4, "green", "Commander", "N">>, <<8, 4, "orange", "Commander", "S">>,
       <<1, 2, "green", "Shield", "N">>,    <<7, 2, "orange", "Shield", "S">>,
       <<1, 4, "green", "Shield", "N">>,    <<7, 4, "orange", "Shield", "S">>,
       <<1, 6, "green", "Shield", "N">>,    <<7, 6, "orange", "Shield", "S">>,
       <<0, 1, "green", "Probe", "N">>,     <<8, 1, "orange", "Probe", "S">>,
       <<0, 3, "green", "Probe", "N">>,     <<8, 3, "orange", "Probe", "S">>,
       <<0, 5, "green", "Probe", "N">>,     <<8, 5, "orange", "Probe", "S">>,
       <<0, 7, "green", "Probe", "N">>,     <<8, 7, "orange", "Probe", "S">>,
       <<0, 0, "green", "Lance", "N">>,     <<0, 8, "green", "Lance", "N">>,
       <<8, 0, "orange", "Lance", "S">>,    <<8, 8, "orange", "Lance", "S">> >>

RECURSIVE PloyGame_add_pieces(_, _)
PloyGame_add_pieces(b, n) ==
    IF n = 0 THEN b
    ELSE LET a == PloyGame_setup_calls[n]
         IN  PloyGame_add_piece(PloyGame_add_pieces(b, n - 1),
                                a[1], a[2], a[3], a[4], a[5])

PloyGame_setup_pieces ==
    PloyGame_add_pieces([c \in Cells |-> NoPiece], Len(PloyGame_setup_calls))

\* PloyGame.__init__: nothing selected, green starts, no highlights.
PloyGame_init ==
    /\ board_state = PloyGame_setup_pieces
    /\ selected_piece = NoSelection
    /\ current_player = "green"
    /\ valid_moves = {}

\* PloyGameUI.__init__: no cell selected, no valid moves cached.
PloyGameUI_init ==
    /\ selected_cell = NoSelection
    /\ highlighted = {}

\* GameState.__init__ followed by initialize_board, as PloyGameUI.__init__
\* constructs the engine.
InitMode(mode) ==
    /\ board = InitialBoard(FALSE, mode)
    /\ captured = NoCaptures(mode)
    /\ last_action = "None"
    /\ is_bottom_on_top = FALSE
    /\ game_mode = mode
    /\ current_player_position = "bottom"
    /\ op = "__init__"
    /\ ret = "None"
    /\ exit_at = "end"
    /\ turn_log = {}
    /\ steps = 0
    /\ PloyGame_init
    /\ PloyGameUI_init

Init == InitMode("2player")

\* Mutant: re-initialisation hands the turn back to bottom.
initialize_board_resets_turn ==
    /\ steps < MaxSteps
    /\ board' = InitialBoard(is_bottom_on_top, game_mode)
    /\ captured' = NoCaptures(game_mode)
    /\ current_player_position' = "bottom"
    /\ last_action' = "None"
    /\ op' = "initialize_board"
    /\ ret' = "None"
    /\ exit_at' = "end"
    /\ steps' = steps + 1
    /\ UNCHANGED <<legacy, window, is_bottom_on_top, game_mode, turn_log>>

initialize_board ==
    /\ steps < MaxSteps
    /\ board' = InitialBoard(is_bottom_on_top, game_mode)
    /\ captured' = NoCaptures(game_mode)
    /\ op' = "initialize_board"
    /\ ret' = "None"
    /\ exit_at' = "end"
    /\ steps' = steps + 1
    /\ UNCHANGED <<legacy, window, last_action, is_bottom_on_top, game_mode,
                   current_player_position, turn_log>>

\* What flip_board_orientation makes of a grid and an orientation flag: the
\* flag is toggled and the grid is rebuilt by initialize_board.
flip_result(b, flipped, mode) ==
    [flag |-> ~flipped, grid |-> InitialBoard(~flipped, mode)]

flip_board_orientation ==
    /\ steps < MaxSteps
    /\ is_bottom_on_top' = flip_result(board, is_bottom_on_top, game_mode).flag
    /\ board' = flip_result(board, is_bottom_on_top, game_mode).grid
    /\ captured' = NoCaptures(game_mode)
    /\ op' = "flip_board_orientation"
    /\ ret' = "None"
    /\ exit_at' = "end"
    /\ steps' = steps + 1
    /\ UNCHANGED <<legacy, window, last_action, game_mode, current_player_position, turn_log>>

\* ---------------------------------------------------- legal-move walk
OnBoard(row, col) ==
    /\ 0 <= row /\ row < BOARD_SIZE
    /\ 0 <= col /\ col < BOARD_SIZE

\* The loop "for step in range(1, max_steps + 1)" of highlight_valid_moves,
\* from a given step on, with position in place of color: stop at the board
\* edge; stop at the first occupied cell, which is added when it holds a
\* piece of another seat; an empty cell is added and the walk goes on.
\* Mutant: the first occupied cell is added whoever owns the piece on it.
RECURSIVE WalkFrom_any_owner(_, _, _, _)
WalkFrom_any_owner(b, cell, piece, step) ==
    LET vector  == DIRECTION_VECTORS[piece.orientation]
        new_row == cell[1] + step * vector[1]
        new_col == cell[2] + step * vector[2]
    IN  IF step > PIECE_TYPES[piece.type] THEN {}
        ELSE IF ~OnBoard(new_row, new_col) THEN {}
        ELSE IF b[<<new_row, new_col>>] # None
             THEN {<<new_row, new_col>>}
             ELSE {<<new_row, new_col>>}
                      \cup WalkFrom_any_owner(b, cell, piece, step + 1)

RECURSIVE WalkFrom(_, _, _, _)
WalkFrom(b, cell, piece, step) ==
    LET vector  == DIRECTION_VECTORS[piece.orientation]
        new_row == cell[1] + step * vector[1]
        new_col == cell[2] + step * vector[2]
    IN  IF step > PIECE_TYPES[piece.type] THEN {}
        ELSE IF ~OnBoard(new_row, new_col) THEN {}
        ELSE IF b[<<new_row, new_col>>] # None
             THEN IF b[<<new_row, new_col>>].position # piece.position
                  THEN {<<new_row, new_col>>}
                  ELSE {}
             ELSE {<<new_row, new_col>>} \cup WalkFrom(b, cell, piece, step + 1)

\* The cells the walk of the piece standing on cell yields.
Walk(b, cell) == WalkFrom(b, cell, b[cell], 1)

Cardinal == {"N", "E", "S", "W"}

\* get_valid_moves (specification 4.3): empty for an empty cell, for a
\* piece of another seat, for a non-Shield after a rotation in this turn and
\* for a Commander facing diagonally; otherwise the walk.
get_valid_moves(cell) ==
    LET piece == board[cell]
    IN  IF cell \notin Cells THEN {}
        ELSE IF piece = None \/ piece.position # current_player_position THEN {}
        ELSE IF last_action = "rotate" /\ piece.type # "Shield" THEN {}
        ELSE IF piece.type = "Commander" /\ piece.orientation \notin Cardinal THEN {}
        ELSE Walk(board, cell)

\* is_valid_move (specification 4.5): the destination is in the legal-move
\* set computed from the current board.
is_valid_move(from, to) == to \in get_valid_moves(from)

\* ------------------------------------------------------------- inputs
\* The cells the players click on: the left edge file and the near half of
\* the centre file.
Touch == {c \in Cells : c[2] = 0 \/ (c[2] = 4 /\ c[1] <= 3)}
FromCells == Touch
ToCells   == Touch

\* Coordinates off the grid that a caller may pass: a row past the last, a
\* row before the first, a column far before the first.
Malformed == {<<9, 0>>, <<-1, 0>>, <<0, -10>>}

\* The move_piece calls made: between touched cells, and with a malformed
\* source or destination.
MoveCalls ==
    (FromCells \X ToCells) \cup (Malformed \X {<<1, 0>>})
                           \cup ({<<0, 0>>} \X Malformed)

\* ---------------------------------------------------------- operations
\* "return False" at the named guard: nothing else changes.
Rejected(guard) ==
    /\ exit_at' = guard
    /\ ret' = "False"
    /\ UNCHANGED <<legacy, window, engine, turn_log, steps>>

\* Mutant: the captured piece is credited to its own seat.
handle_capture_credits_owner(caps, piece, target_piece) ==
    IF target_piece # None
    THEN [caps EXCEPT ![target_piece.position] = Append(@, target_piece)]
    ELSE caps

\* Mutant: the moving piece is appended in place of the captured one.
handle_capture_appends_mover(caps, piece, target_piece) ==
    IF target_piece # None
    THEN [caps EXCEPT ![piece.position] = Append(@, piece)]
    ELSE caps

\* "Handle capture": a piece on the destination goes to the end of the
\* capture list of the moving piece's seat.
handle_capture(caps, piece, target_piece) ==
    IF target_piece # None
    THEN [caps EXCEPT ![piece.position] = Append(@, target_piece)]
    ELSE caps

\* Mutant: the source cell is not cleared.
relocate_keeps_source(b, piece, from, to) == [b EXCEPT ![to] = piece]

\* Mutant: the moved piece is turned to face N.
relocate_turned(b, piece, from, to) ==
    [b EXCEPT ![to] = [piece EXCEPT !.orientation = "N"], ![from] = None]

\* "Move piece": the destination takes the piece, then the source is cleared.
relocate(b, piece, from, to) == [b EXCEPT ![to] = piece, ![from] = None]

\* Mutant: last_action is left as it was.
action_after_move_forgotten == last_action

\* The value move_piece stores in last_action.
action_after_move == "move"

\* A Python list subscript is accepted from -len to len - 1, a negative one
\* counting from the end; any other raises IndexError.
Subscriptable(cell) ==
    /\ cell[1] \in -BOARD_SIZE .. (BOARD_SIZE - 1)
    /\ cell[2] \in -BOARD_SIZE .. (BOARD_SIZE - 1)

Subscript(cell) == <<cell[1] % BOARD_SIZE, cell[2] % BOARD_SIZE>>

\* The call is left by an exception: nothing is returned, nothing changes.
Raised(exception) ==
    /\ exit_at' = "raise"
    /\ ret' = exception
    /\ UNCHANGED <<legacy, window, engine, turn_log, steps>>

\* Mutant: the destination is not validated.
move_piece_unchecked(from, to) ==
    LET piece        == board[Subscript(from)]
        target_piece == board[Subscript(to)]
    IN  /\ op' = "move_piece"
        /\ IF ~Subscriptable(from)
           THEN Raised("IndexError")
           ELSE IF piece = None \/ piece.position # current_player_position
           THEN Rejected("not_own_piece")
           ELSE IF ~Subscriptable(to)
           THEN Raised("IndexError")
           ELSE /\ steps < MaxSteps
                /\ captured' = handle_capture(captured, piece, target_piece)
                /\ board' = relocate(board, piece, Subscript(from), Subscript(to))
                /\ last_action' = action_after_move
                /\ exit_at' = "end"
                /\ ret' = "True"
                /\ turn_log' = turn_log \cup {"move"}
                /\ steps' = steps + 1
                /\ UNCHANGED <<legacy, window, is_bottom_on_top, game_mode,
                               current_player_position>>

move_piece(from, to) ==
    LET piece        == board[Subscript(from)]
        target_piece == board[to]
    IN  /\ op' = "move_piece"
        /\ IF ~Subscriptable(from)
           THEN Raised("IndexError")
           ELSE IF piece = None \/ piece.position # current_player_position
           THEN Rejected("not_own_piece")
           ELSE IF ~is_valid_move(from, to)
           THEN Rejected("not_valid_move")
           ELSE /\ steps < MaxSteps
                /\ captured' = handle_capture(captured, piece, target_piece)
                /\ board' = relocate(board, piece, from, to)
                /\ last_action' = action_after_move
                /\ exit_at' = "end"
                /\ ret' = "True"
                /\ turn_log' = turn_log \cup {"move"}
                /\ steps' = steps + 1
                /\ UNCHANGED <<legacy, window, is_bottom_on_top, game_mode,
                               current_player_position>>

\* Position of an orientation in DIRECTIONS, counted from 0 as in Python.
DirIndex(o) == CHOOSE i \in 0 .. 7 : DIRECTIONS[i + 1] = o

\* The rotation step of wheelEvent: one entry forward (clockwise) or back
\* in DIRECTIONS, modulo its length.
\* Mutant: the two directions of rotation change places.
Rotated_reversed(o, clockwise) ==
    LET current_index == DirIndex(o)
        new_index == IF clockwise THEN (current_index - 1) % Len(DIRECTIONS)
                                  ELSE (current_index + 1) % Len(DIRECTIONS)
    IN  DIRECTIONS[new_index + 1]

Rotated(o, clockwise) ==
    LET current_index == DirIndex(o)
        new_index == IF clockwise THEN (current_index + 1) % Len(DIRECTIONS)
                                  ELSE (current_index - 1) % Len(DIRECTIONS)
    IN  DIRECTIONS[new_index + 1]

\* The guards of rotate_piece (specification 4.4), in order: the guard the
\* call is refused by, or "end" when it goes through.
rotate_exit(cell, clockwise) ==
    LET piece == board[cell]
    IN  IF piece = None \/ piece.position # current_player_position
        THEN "not_own_piece"
        ELSE IF last_action = "move" /\ piece.type # "Shield"
        THEN "moved_this_turn"
        ELSE IF /\ piece.type = "Commander"
                /\ Rotated(piece.orientation, clockwise) \notin Cardinal
        THEN "commander_diagonal"
        ELSE "end"

\* rotate_piece (specification 4.4).
rotate_piece(cell, clockwise) ==
    LET piece           == board[cell]
        new_orientation == Rotated(piece.orientation, clockwise)
    IN  /\ op' = "rotate_piece"
        /\ IF rotate_exit(cell, clockwise) # "end"
           THEN Rejected(rotate_exit(cell, clockwise))
           ELSE /\ steps < MaxSteps
                /\ board' = [board EXCEPT ![cell].orientation = new_orientation]
                /\ last_action' = "rotate"
                /\ exit_at' = "end"
                /\ ret' = "True"
                /\ turn_log' = turn_log \cup {"rotate"}
                /\ steps' = steps + 1
                /\ UNCHANGED <<legacy, window, captured, is_bottom_on_top, game_mode,
                               current_player_position>>

\* Mutant: left and right change places in the turn order.
positions_crossed == <<"bottom", "left", "top", "right">>

positions == <<"bottom", "right", "top", "left">>

\* The seat end_turn hands the turn to.
next_position(mode, position) ==
    IF mode = "2player"
    THEN IF position = "bottom" THEN "top" ELSE "bottom"
    ELSE LET current_idx == CHOOSE i \in 0 .. 3 : positions[i + 1] = position
         IN  positions[((current_idx + 1) % 4) + 1]

\* Mutant: end_turn leaves last_action as it was.
action_after_end_turn_kept == last_action

\* self.last_action = None at the end of end_turn.
action_after_end_turn == "None"

\* Mutant: end_turn puts the pieces back on their initial cells.
end_turn_effect_resets_board ==
    /\ current_player_position' =
           next_position(game_mode, current_player_position)
    /\ last_action' = action_after_end_turn
    /\ board' = InitialBoard(is_bottom_on_top, game_mode)
    /\ op' = "end_turn"
    /\ ret' = "None"
    /\ exit_at' = "end"
    /\ turn_log' = {}
    /\ UNCHANGED <<legacy, window, captured, is_bottom_on_top, game_mode>>

\* What end_turn does to the game.
end_turn_effect ==
    /\ current_player_position' =
           next_position(game_mode, current_player_position)
    /\ last_action' = action_after_end_turn
    /\ op' = "end_turn"
    /\ ret' = "None"
    /\ exit_at' = "end"
    /\ turn_log' = {}
    /\ UNCHANGED <<legacy, window, board, captured, is_bottom_on_top, game_mode>>

end_turn ==
    /\ steps < MaxSteps
    /\ end_turn_effect
    /\ steps' = steps + 1

\* end_turn after the counted calls are used up: the turn keeps passing, the
\* call is no longer counted.
end_turn_repeated ==
    /\ steps >= MaxSteps
    /\ end_turn_effect
    /\ UNCHANGED steps

\* checkGameOver (specification 4.8, as the source reads): true when some
\* seat holds at least one captured piece and no Commander among them.
check_game_over(caps) ==
    \E s \in DOMAIN caps :
        /\ Len(caps[s]) > 0
        /\ \A i \in DOMAIN caps[s] : caps[s][i].type # "Commander"

\* Player.__init__: a new player object starts with no captured pieces.
Player_captured_pieces == <<>>

\* set_players with one configuration, for the position it names: a position
\* that is a key of players gets a new Player object in the old one's place,
\* any other position is skipped. The capture lists are the captured_pieces
\* of the player objects.
set_players(position) ==
    /\ op' = "set_players"
    /\ ret' = "None"
    /\ IF position \in DOMAIN captured
       THEN /\ steps < MaxSteps
            /\ captured' = [captured EXCEPT ![position] = Player_captured_pieces]
            /\ exit_at' = "end"
            /\ steps' = steps + 1
            /\ UNCHANGED <<legacy, window, board, last_action, is_bottom_on_top,
                           game_mode, current_player_position, turn_log>>
       ELSE /\ exit_at' = "not_in_players"
            /\ UNCHANGED <<legacy, window, engine, turn_log, steps>>

\* The positions a configuration is given for: the seats of the 2-seat game
\* and one that exists in 4-seat mode only.
ConfiguredPositions == {"bottom", "top", "left"}

SetPlayers == \E position \in ConfiguredPositions : set_players(position)

Move   == \E call \in MoveCalls : move_piece(call[1], call[2])
Rotate == \E cell \in FromCells, clockwise \in BOOLEAN : rotate_piece(cell, clockwise)

Next ==
    \/ initialize_board
    \/ flip_board_orientation
    \/ Move
    \/ Rotate
    \/ end_turn

Spec == Init /\ [][Next]_vars

\* The engine with its seats reconfigured in mid-game.
NextPlayers ==
    \/ initialize_board
    \/ flip_board_orientation
    \/ Move
    \/ Rotate
    \/ end_turn
    \/ SetPlayers

SpecPlayers == Init /\ [][NextPlayers]_vars

\* The engine constructed in either game mode, with end_turn called again and
\* again for as long as the game runs.
GameModes == {"2player", "4player"}

InitModes == \E mode \in GameModes : InitMode(mode)

NextModes ==
    \/ initialize_board
    \/ flip_board_orientation
    \/ Move
    \/ Rotate
    \/ end_turn
    \/ end_turn_repeated

SpecModes ==
    InitModes /\ [][NextModes]_vars /\ WF_vars(end_turn \/ end_turn_repeated)

\* ------------------------------------------- the legacy window, events
\* highlight_valid_moves: from the piece's cell step by step along its
\* orientation, up to its reach and the edge of the grid; the first occupied
\* cell ends the walk and is kept when its piece has another colour.
RECURSIVE PloyGame_walk(_, _, _)
PloyGame_walk(b, piece, step) ==
    LET max_steps == PIECE_TYPES[piece.type]
        vector    == PloyGame_DIRECTION_VECTORS[piece.orientation]
        new_row   == piece.row + step * vector[2]
        new_col   == piece.col + step * vector[1]
    IN  IF step > max_steps THEN {}
        ELSE IF ~(0 <= new_row /\ new_row < BOARD_SIZE
                    /\ 0 <= new_col /\ new_col < BOARD_SIZE) THEN {}
        ELSE IF b[<<new_row, new_col>>] # NoPiece
             THEN IF b[<<new_row, new_col>>].color # piece.color
                  THEN {<<new_row, new_col>>}
                  ELSE {}
             ELSE {<<new_row, new_col>>} \cup PloyGame_walk(b, piece, step + 1)

PloyGame_highlight_valid_moves(b, selected) ==
    IF selected = NoSelection THEN {} ELSE PloyGame_walk(b, b[selected], 1)

\* Mutant: a piece of either colour can be selected.
PloyGame_selectable_any(b, cell, player) == b[cell] # NoPiece

\* The test of mousePressEvent for selecting the piece on the clicked cell.
PloyGame_selectable(b, cell, player) ==
    b[cell] # NoPiece /\ b[cell].color = player

\* Mutant: the turn stays with the player.
PloyGame_end_turn_stays(player) == player

\* PloyGame.end_turn.
PloyGame_end_turn(player) == IF player = "green" THEN "orange" ELSE "green"

\* The events the window handles.
PloyGameEvents == {"mousePressEvent", "wheelEvent"}

\* The window is in use, or nothing has been used yet.
PloyGameRuns == op \in PloyGameEvents \cup {"__init__"}

\* An event that finds nothing to do: no piece selected.
PloyGame_ignored(label) ==
    /\ exit_at' = label
    /\ ret' = "None"
    /\ UNCHANGED <<legacy, window, engine, turn_log, steps>>

\* The cells clicked on in the legacy window, and a click beside the grid:
\* the Shields of file 2 with the cells behind them, an empty cell, and the
\* diagonal from green's Lance on (0, 0) to orange's Lance on (8, 8).
Elsewhere == <<-2, -2>>

Clicks ==
    {<<1, 2>>, <<0, 2>>, <<7, 2>>, <<8, 2>>, <<4, 4>>,
     <<0, 0>>, <<3, 3>>, <<5, 5>>, <<8, 8>>, Elsewhere}

\* Mutant: the moved piece keeps the row and column it came from.
PloyGame_move_piece_uncached(b, selected, target) ==
    [b EXCEPT ![target] = b[selected], ![selected] = NoPiece]

\* "Update board state" in move_piece: the target cell takes the selected
\* piece, its old cell is emptied, its row and col are set to the target's.
PloyGame_move_piece(b, selected, target) ==
    [b EXCEPT ![target] = [b[selected] EXCEPT
                              !.row = target[1], !.col = target[2]],
              ![selected] = NoPiece]

\* mousePressEvent with the cell under the mouse: a highlighted cell takes the
\* selected piece (move_piece, which deselects and ends the turn), a piece of
\* the current player is selected (select_piece, which highlights its moves),
\* any other click deselects.
PloyGame_mousePressEvent(cell) ==
    /\ PloyGameRuns
    /\ op' = "mousePressEvent"
    /\ IF cell # Elsewhere /\ selected_piece # NoSelection /\ cell \in valid_moves
       THEN /\ steps < MaxEvents
            /\ board_state' = PloyGame_move_piece(board_state, selected_piece, cell)
            /\ valid_moves' = {}
            /\ selected_piece' = NoSelection
            /\ current_player' = PloyGame_end_turn(current_player)
            /\ exit_at' = "move_piece"
            /\ ret' = "None"
            /\ steps' = steps + 1
            /\ UNCHANGED <<engine, window, turn_log>>
       ELSE IF cell # Elsewhere
                 /\ PloyGame_selectable(board_state, cell, current_player)
       THEN /\ steps < MaxEvents
            /\ selected_piece' = cell
            /\ valid_moves' = PloyGame_highlight_valid_moves(board_state, cell)
            /\ exit_at' = "select_piece"
            /\ ret' = "None"
            /\ steps' = steps + 1
            /\ UNCHANGED <<board_state, current_player, engine, window, turn_log>>
       ELSE IF selected_piece = NoSelection
       THEN PloyGame_ignored("deselect_piece")
       ELSE /\ steps < MaxEvents
            /\ valid_moves' = {}
            /\ selected_piece' = NoSelection
            /\ exit_at' = "deselect_piece"
            /\ ret' = "None"
            /\ steps' = steps + 1
            /\ UNCHANGED <<board_state, current_player, engine, window, turn_log>>

\* wheelEvent: the selected piece turns one entry forward in DIRECTIONS when
\* the wheel is scrolled up, one entry back otherwise; the highlighted cells
\* are left as they are.
\* Mutant: every piece of the selected piece's colour turns with it.
PloyGame_rotate_all(b, selected, scroll_up) ==
    [c \in Cells |->
        IF b[c] # NoPiece /\ b[c].color = b[selected].color
        THEN [b[c] EXCEPT !.orientation = Rotated(b[c].orientation, scroll_up)]
        ELSE b[c]]

\* selected_piece["orientation"] = new_orientation in wheelEvent.
PloyGame_rotate(b, selected, scroll_up) ==
    [b EXCEPT ![selected].orientation =
        Rotated(b[selected].orientation, scroll_up)]

PloyGame_wheelEvent(scroll_up) ==
    /\ PloyGameRuns
    /\ op' = "wheelEvent"
    /\ IF selected_piece = NoSelection
       THEN PloyGame_ignored("no_selection")
       ELSE /\ steps < MaxEvents
            /\ board_state' =
                   PloyGame_rotate(board_state, selected_piece, scroll_up)
            /\ exit_at' = "end"
            /\ ret' = "None"
            /\ steps' = steps + 1
            /\ UNCHANGED <<selected_piece, current_player, valid_moves,
                           engine, window, turn_log>>

Click == \E cell \in Clicks : PloyGame_mousePressEvent(cell)
Wheel == \E scroll_up \in BOOLEAN : PloyGame_wheelEvent(scroll_up)

\* The engine is called by its own window, never from the legacy one.
GameStateCall == op \notin PloyGameEvents /\ Next

\* Either program is run: the legacy window, or the engine.
NextPrograms ==
    \/ GameStateCall
    \/ Click
    \/ Wheel

SpecPrograms == Init /\ [][NextPrograms]_vars

\* ------------------------------------------------ the window, events
\* The events of PloyGameUI, told from the legacy window's by the class.
PloyGameUIEvents == {"PloyGameUI.mousePressEvent", "PloyGameUI.wheelEvent"}

\* deselect_piece of the window: no cell selected_cell, no valid moves cached.
PloyGameUI_deselect_piece ==
    /\ selected_cell' = NoSelection
    /\ highlighted' = {}

\* execute_move: move_piece from the selected_cell cell; when it returns True the
\* selection is dropped and end_turn is called, otherwise nothing happens.
PloyGameUI_execute_move(cell) ==
    IF is_valid_move(selected_cell, cell)
    THEN /\ steps < MaxSteps
         /\ captured' = handle_capture(captured, board[selected_cell], board[cell])
         /\ board' = relocate(board, board[selected_cell], selected_cell, cell)
         /\ PloyGameUI_deselect_piece
         /\ current_player_position' =
                next_position(game_mode, current_player_position)
         /\ last_action' = action_after_end_turn
         /\ turn_log' = {}
         /\ exit_at' = "end_turn"
         /\ ret' = "None"
         /\ steps' = steps + 1
         /\ UNCHANGED <<legacy, is_bottom_on_top, game_mode>>
    ELSE /\ exit_at' = "execute_move"
         /\ ret' = "None"
         /\ UNCHANGED <<legacy, window, engine, turn_log, steps>>

\* mousePressEvent with the vertex under the mouse. With a cell selected_cell, a
\* click on a cached valid move executes the move and any other click
\* deselects. With nothing selected_cell, a click on a piece compares its colour
\* with self.game_state.current_player, an attribute GameState does not
\* have: the handler is left by AttributeError before select_piece.
PloyGameUI_mousePressEvent(cell) ==
    /\ op \notin PloyGameEvents
    /\ op' = "PloyGameUI.mousePressEvent"
    /\ IF cell = Elsewhere
       THEN /\ exit_at' = "no_vertex"
            /\ ret' = "None"
            /\ UNCHANGED <<legacy, window, engine, turn_log, steps>>
       ELSE IF selected_cell # NoSelection /\ cell \in highlighted
       THEN PloyGameUI_execute_move(cell)
       ELSE IF selected_cell # NoSelection
       THEN /\ steps < MaxSteps
            /\ PloyGameUI_deselect_piece
            /\ exit_at' = "deselect_piece"
            /\ ret' = "None"
            /\ steps' = steps + 1
            /\ UNCHANGED <<legacy, engine, turn_log>>
       ELSE IF board[cell] = None
       THEN /\ exit_at' = "end"
            /\ ret' = "None"
            /\ UNCHANGED <<legacy, window, engine, turn_log, steps>>
       ELSE /\ exit_at' = "raise"
            /\ ret' = "AttributeError"
            /\ UNCHANGED <<legacy, window, engine, turn_log, steps>>

\* wheelEvent: nothing without a selection; otherwise rotate_piece on the
\* selected_cell cell and, when it returns True, the valid moves are read again.
PloyGameUI_wheelEvent(clockwise) ==
    /\ op \notin PloyGameEvents
    /\ op' = "PloyGameUI.wheelEvent"
    /\ ret' = "None"
    /\ IF selected_cell = NoSelection
       THEN /\ exit_at' = "no_selection"
            /\ UNCHANGED <<legacy, window, engine, turn_log, steps>>
       ELSE IF rotate_exit(selected_cell, clockwise) # "end"
       THEN /\ exit_at' = "end"
            /\ UNCHANGED <<legacy, window, engine, turn_log, steps>>
       ELSE /\ steps < MaxSteps
            /\ board' = [board EXCEPT ![selected_cell].orientation =
                             Rotated(board[selected_cell].orientation, clockwise)]
            /\ last_action' = "rotate"
            /\ turn_log' = turn_log \cup {"rotate"}
            /\ selected_cell' = selected_cell
            /\ highlighted' = get_valid_moves(selected_cell)'
            /\ exit_at' = "end"
            /\ steps' = steps + 1
            /\ UNCHANGED <<legacy, captured, is_bottom_on_top, game_mode,
                           current_player_position>>

WindowClick == \E cell \in Touch \cup {Elsewhere} : PloyGameUI_mousePressEvent(cell)
WindowWheel == \E clockwise \in BOOLEAN : PloyGameUI_wheelEvent(clockwise)

\* The engine is called until a window's events begin.
EngineCall == op \notin (PloyGameEvents \cup PloyGameUIEvents) /\ Next

\* Both windows: the legacy one on its own board, and PloyGameUI on an engine
\* in any state its calls reach.
NextWindows ==
    \/ EngineCall
    \/ WindowClick
    \/ WindowWheel
    \/ Click
    \/ Wheel

SpecWindows == Init /\ [][NextWindows]_vars

\* The legacy window alone.
NextWindow ==
    \/ Click
    \/ Wheel

SpecWindow == Init /\ [][NextWindow]_vars

\* ============================================================ properties
\* Identities of the pieces created by the last initialization.
PieceIds == {InitialBoard(is_bottom_on_top, game_mode)[c].id : c \in Cells} \ {0}

CellsOf(id) == {c \in Cells : board[c].id = id}

IdsOnBoard == {board[c].id : c \in Cells} \ {0}

CapturedIds ==
    UNION {{captured[s][i].id : i \in DOMAIN captured[s]} : s \in DOMAIN captured}

\* The call just made was a move_piece that returned True.
Moved == op' = "move_piece" /\ exit_at' = "end" /\ ret' = "True"

\* C1: in every reachable state no piece stands on two cells and every piece
\* that has not been captured stands on exactly one; a successful
\* move_piece(from, to) leaves, in that one step, the source cell empty and
\* the destination cell holding the piece that stood on the source.
C1_OnePlace ==
    \A id \in PieceIds :
        /\ Cardinality(CellsOf(id)) <= 1
        /\ id \notin CapturedIds => Cardinality(CellsOf(id)) = 1

C1_MoveStep ==
    Moved =>
        \A from \in FromCells, to \in ToCells :
            move_piece(from, to) =>
                /\ board'[from] = None
                /\ board'[to].id = board[from].id

C1_ExactlyOneCell == []C1_OnePlace /\ [][C1_MoveStep]_vars

\* A piece has been moved and stands on a cell it did not start on.
C1_Witness ==
    /\ op = "move_piece" /\ exit_at = "end" /\ ret = "True"
    /\ \E c \in Cells :
           /\ board[c] # None
           /\ board[c].id # InitialBoard(is_bottom_on_top, game_mode)[c].id

\* C2: no piece held in a capture list stands on the board.
C2_CapturedOffBoard == CapturedIds \cap IdsOnBoard = {}

\* Some seat holds a captured piece.
C2_Witness == \E s \in DOMAIN captured : Len(captured[s]) > 0

\* C3: a successful move onto a piece of another seat takes that piece off
\* the board and appends it to the end of the moving seat's capture list,
\* leaving every other list as it was; a move onto an empty cell changes no
\* capture list.
C3_Step ==
    Moved =>
        \A from \in FromCells, to \in ToCells :
            move_piece(from, to) =>
                IF board[to] # None
                THEN /\ board[to].position # current_player_position
                     /\ captured'[current_player_position] =
                            Append(captured[current_player_position], board[to])
                     /\ \A s \in DOMAIN captured \ {current_player_position} :
                            captured'[s] = captured[s]
                     /\ \A c \in Cells : board'[c].id # board[to].id
                ELSE captured' = captured

MustReject(from, to) ==
    \/ board[from] = None
    \/ board[from].position # current_player_position
    \/ to \notin get_valid_moves(from)

C4_Step ==
    (/\ op' = "move_piece"
     /\ ~(/\ exit_at' # "raise"
          /\ ret' = "False"
          /\ board' = board
          /\ captured' = captured
          /\ current_player_position' = current_player_position
          /\ last_action' = last_action))
    => \A from \in FromCells, to \in ToCells :
           move_piece(from, to) => ~MustReject(from, to)

C4_RejectedMoveChangesNothing == [][C4_Step]_vars

\* A move of an own piece to a cell outside its legal-move set was refused.
C4_Witness == op = "move_piece" /\ exit_at = "not_valid_move" /\ ret = "False"

\* C5: the walk of every piece on the board, as it faces and turned to each
\* of the eight orientations, yields exactly the cells at
\* steps 1..reach (Commander 1, Shield 1, Probe 2, Lance 3) along its facing
\* vector that are on the board, have only empty cells before them, and are
\* empty or hold a piece of another seat; so a Lance on (0,0) facing S with
\* (1,0), (2,0), (3,0) empty gets exactly these three cells.
ClaimedReach == [Commander |-> 1, Shield |-> 1, Probe |-> 2, Lance |-> 3]

Ahead(b, cell, k) ==
    <<cell[1] + k * DIRECTION_VECTORS[b[cell].orientation][1],
      cell[2] + k * DIRECTION_VECTORS[b[cell].orientation][2]>>

ExpectedMoves(b, cell) ==
    {Ahead(b, cell, k) : k \in
        {j \in 1 .. ClaimedReach[b[cell].type] :
            /\ OnBoard(Ahead(b, cell, j)[1], Ahead(b, cell, j)[2])
            /\ \A i \in 1 .. (j - 1) : b[Ahead(b, cell, i)] = None
            /\ \/ b[Ahead(b, cell, j)] = None
               \/ b[Ahead(b, cell, j)].position # b[cell].position}}

\* The board with the piece on cell turned to face o.
Turned(cell, o) == [board EXCEPT ![cell].orientation = o]

C5_WalkIsReachRule ==
    /\ \A c \in Cells : board[c] # None => Walk(board, c) = ExpectedMoves(board, c)
    /\ \A c \in Cells : \A i \in DOMAIN DIRECTIONS :
           board[c] # None =>
               Walk(Turned(c, DIRECTIONS[i]), c)
                   = ExpectedMoves(Turned(c, DIRECTIONS[i]), c)
    /\ (/\ board[<<0, 0>>].type = "Lance"
        /\ board[<<0, 0>>].orientation = "S"
        /\ \A r \in 1 .. 3 : board[<<r, 0>>] = None)
       => Walk(board, <<0, 0>>) = {<<1, 0>>, <<2, 0>>, <<3, 0>>}

\* One piece is blocked by a piece of its own seat at its first step while
\* another has a piece of the other seat as the last cell of its walk, after
\* an empty one.
C5_Witness ==
    /\ \E c \in Cells :
           /\ board[c] # None
           /\ OnBoard(Ahead(board, c, 1)[1], Ahead(board, c, 1)[2])
           /\ board[Ahead(board, c, 1)].position = board[c].position
           /\ Walk(board, c) = {}
    /\ \E c \in Cells :
           /\ board[c] # None
           /\ Cardinality(Walk(board, c)) >= 2
           /\ \E d \in Walk(board, c) : board[d] # None

\* The pieces of the active seat that are not Shields.
OwnNonShields ==
    {c \in Cells : /\ board[c] # None
                   /\ board[c].position = current_player_position
                   /\ board[c].type # "Shield"}

C6_LastActionGates ==
    /\ (op = "rotate_piece" /\ ret = "True") => last_action = "rotate"
    /\ (op = "move_piece" /\ exit_at = "end" /\ ret = "True") => last_action = "move"
    /\ last_action = "rotate" =>
           \A c \in OwnNonShields : get_valid_moves(c) = {}
    /\ last_action = "move" =>
           \A c \in OwnNonShields, cw \in BOOLEAN : rotate_exit(c, cw) # "end"

C6_Step ==
    /\ (last_action = "rotate" /\ Moved) =>
           \A from \in FromCells, to \in ToCells :
               move_piece(from, to) => board[from].type = "Shield"
    /\ (last_action = "move" /\ op' = "rotate_piece" /\ ret' = "True") =>
           \A cell \in FromCells, cw \in BOOLEAN :
               rotate_piece(cell, cw) => board[cell].type = "Shield"

C7_Cardinal ==
    /\ \A c \in Cells :
           board[c].type = "Commander" => board[c].orientation \in Cardinal
    /\ \A s \in DOMAIN captured : \A i \in DOMAIN captured[s] :
           captured[s][i].type = "Commander"
               => captured[s][i].orientation \in Cardinal

C7_Step ==
    (op' = "rotate_piece" /\ ~(ret' = "False" /\ engine' = engine))
    => \A cell \in FromCells, cw \in BOOLEAN :
           rotate_piece(cell, cw) =>
               ~(/\ board[cell].type = "Commander"
                 /\ Rotated(board[cell].orientation, cw) \notin Cardinal)

JustInitialized == op \in {"__init__", "initialize_board", "flip_board_orientation"}

\* Home rows as claimed: bottom on row 0, or on row 8 when is_bottom_on_top.
HomeRow(seat) ==
    IF seat = "bottom" THEN (IF is_bottom_on_top THEN 8 ELSE 0)
                       ELSE (IF is_bottom_on_top THEN 0 ELSE 8)

\* The row step from a home row towards the opposite home row.
Inward(seat) == IF HomeRow(seat) = 0 THEN 1 ELSE -1

\* C8: after initialize_board in 2-seat mode every piece faces forward: the
\* row component of its facing vector is the step from its seat's home row
\* towards the opposite home row.
C8_FacesForward ==
    (JustInitialized /\ game_mode = "2player") =>
        \A c \in Cells :
            board[c] # None =>
                DIRECTION_VECTORS[board[c].orientation][1]
                    = Inward(board[c].position)

\* The formation the claim lists, cell by cell.
ClaimedPiece(c) ==
    IF \E seat \in {"bottom", "top"} :
           \/ (c[1] = HomeRow(seat) /\ c[2] \in {0, 1, 3, 4, 5, 7, 8})
           \/ (c[1] = HomeRow(seat) + Inward(seat) /\ c[2] \in {2, 4, 6})
    THEN LET seat == CHOOSE x \in {"bottom", "top"} :
                         c[1] \in {HomeRow(x), HomeRow(x) + Inward(x)}
         IN  [type |-> IF c[1] # HomeRow(seat) THEN "Shield"
                       ELSE IF c[2] = 4 THEN "Commander"
                       ELSE IF c[2] \in {0, 8} THEN "Lance"
                       ELSE "Probe",
              position |-> seat]
    ELSE [type |-> "None", position |-> "None"]

FormationAsClaimed ==
    /\ \A s \in DOMAIN captured : captured[s] = <<>>
    /\ \A c \in Cells :
           /\ board[c].type = ClaimedPiece(c).type
           /\ board[c].position = ClaimedPiece(c).position

Occupied == {c \in Cells : board[c] # None}

\* C9 as claimed: initialize_board empties the capture lists and leaves the
\* listed formation, 24 pieces in all.
C9_TwentyFourPieces ==
    (JustInitialized /\ game_mode = "2player") =>
        (FormationAsClaimed /\ Cardinality(Occupied) = 24)

\* C9 (amended): initialize_board empties the capture lists and leaves the
\* listed formation, which is 20 pieces, 10 for each seat.
C9_TwentyPieces ==
    (JustInitialized /\ game_mode = "2player") =>
        /\ FormationAsClaimed
        /\ Cardinality(Occupied) = 20
        /\ \A seat \in {"bottom", "top"} :
               Cardinality({c \in Occupied : board[c].position = seat}) = 10

\* initialize_board has run on a flipped board.
C9_Witness == op = "initialize_board" /\ is_bottom_on_top

\* Number of pieces of a type and seat on a board.
CountOn(b, type, seat) ==
    Cardinality({c \in Cells : b[c].type = type /\ b[c].position = seat})

\* C10: flip_board_orientation leaves every capture list untouched and
\* permutes the occupied cells: the pieces on the board, by type and owner,
\* are as many after the call as before.
C10_Step ==
    op' = "flip_board_orientation" =>
        /\ captured' = captured
        /\ \A type \in DOMAIN PIECE_TYPES, seat \in DOMAIN captured :
               CountOn(board', type, seat) = CountOn(board, type, seat)

C10_FlipPermutes == [][C10_Step]_vars

\* A piece as the players see it: type, owner and facing.
Seen(p) == [type |-> p.type, position |-> p.position, orientation |-> p.orientation]

\* C11: calling flip_board_orientation twice in a row restores
\* is_bottom_on_top and puts every piece back on the cell, and facing the
\* way, it had before the first call.
C11_FlipTwiceRestores ==
    LET once  == flip_result(board, is_bottom_on_top, game_mode)
        twice == flip_result(once.grid, once.flag, game_mode)
    IN  /\ twice.flag = is_bottom_on_top
        /\ \A c \in Cells : Seen(twice.grid[c]) = Seen(board[c])

\* The point reflection of a cell through the centre of the board.
Reflect(c) == <<8 - c[1], 8 - c[2]>>

\* The opposite-pairing table as claimed.
ClaimedOpposite ==
    [N  |-> "S",  S  |-> "N",  E  |-> "W",  W  |-> "E",
     NE |-> "SW", SW |-> "NE", NW |-> "SE", SE |-> "NW"]

\* C12: flip_board_orientation toggles is_bottom_on_top and point-reflects
\* the board: a piece that stood on (row, col) stands, with its type and
\* owner, on (8-row, 8-col) afterwards, facing as before or, when its seat is
\* affected by the flip, the opposite way.
C12_Step ==
    op' = "flip_board_orientation" =>
        /\ is_bottom_on_top' = ~is_bottom_on_top
        /\ \A c \in Cells :
               board[c] # None =>
                   /\ board'[Reflect(c)].type = board[c].type
                   /\ board'[Reflect(c)].position = board[c].position
                   /\ board'[Reflect(c)].orientation
                          \in {board[c].orientation,
                               ClaimedOpposite[board[c].orientation]}

C12_FlipReflects == [][C12_Step]_vars

\* The turn order as claimed, per game mode.
ClaimedNextSeat ==
    [2player |-> [bottom |-> "top", top |-> "bottom"],
     4player |-> [bottom |-> "right", right |-> "top",
                  top |-> "left", left |-> "bottom"]]

RECURSIVE AfterTurns(_, _, _)
AfterTurns(mode, position, n) ==
    IF n = 0 THEN position
    ELSE AfterTurns(mode, next_position(mode, position), n - 1)

\* The turn comes back to a seat after exactly as many end_turn calls as the
\* mode has seats, and not before.
C13_Period ==
    \A s \in Seats(game_mode) :
        \A n \in 1 .. Cardinality(Seats(game_mode)) :
            (AfterTurns(game_mode, s, n) = s) <=> (n = Cardinality(Seats(game_mode)))

C13_Step ==
    op' = "end_turn"
        => current_player_position' =
               ClaimedNextSeat[game_mode][current_player_position]

\* C13: end_turn passes the turn to the next seat of the fixed cycle (bottom,
\* top in 2-seat mode; bottom, right, top, left in 4-seat mode), the turn is
\* back after exactly 2 (4) calls, and under repeated end_turn every seat of
\* the mode is active again and again, with or without pieces.
C13_TurnCycle ==
    /\ []C13_Period
    /\ [][C13_Step]_vars
    /\ \A s \in {"bottom", "right", "top", "left"} :
           []<>(s \in Seats(game_mode) => current_player_position = s)

\* The turn has passed to a seat that owns no piece.
C13_Witness ==
    /\ game_mode = "4player"
    /\ op = "end_turn"
    /\ current_player_position = "right"
    /\ \A c \in Cells : board[c].position # "right"

\* The call just made was a rotate_piece that returned True.
RotatedNow == op' = "rotate_piece" /\ ret' = "True"

\* C14 as stated: a successful move_piece sets last_action to 'moved', it
\* stays 'moved' until the next end_turn, and end_turn resets it to 'none'.
C14_Step ==
    /\ Moved => last_action' = "move"
    /\ (last_action = "move" /\ op' # "end_turn") => last_action' = "move"
    /\ op' = "end_turn" => last_action' = "None"

C14_MovedUntilEndTurn == [][C14_Step]_vars

\* The Shields whose orientation the step changed.
ShieldsTurned ==
    {c \in Cells : /\ board[c].type = "Shield"
                   /\ board'[c].type = "Shield"
                   /\ board'[c].orientation # board[c].orientation}

C14_AmendedStep ==
    /\ Moved => last_action' = "move"
    /\ (last_action = "move" /\ last_action' # "move") =>
           \/ op' = "end_turn"
           \/ RotatedNow /\ last_action' = "rotate" /\ ShieldsTurned # {}
    /\ op' = "end_turn" => last_action' = "None"

\* C14, amended: a successful move_piece sets last_action to 'moved' and it
\* stays 'moved' until the next end_turn or until a Shield is rotated, which
\* sets it to 'rotated'; end_turn resets it to 'none'.
C14_Amended == [][C14_AmendedStep]_vars

\* A Shield has just been rotated in a turn in which a piece was moved.
C14_Witness ==
    /\ op = "rotate_piece"
    /\ ret = "True"
    /\ last_action = "rotate"
    /\ "move" \in turn_log

\* A call with a row or a column outside [0, 8].
MalformedCall(call) == call[1] \notin Cells \/ call[2] \notin Cells

\* C15: move_piece called with a row or column outside [0, 8], negative
\* values included, does not crash: it returns False and leaves the whole
\* game state unchanged.
C15_Step ==
    \A call \in MoveCalls :
        (MalformedCall(call) /\ move_piece(call[1], call[2])) =>
            /\ exit_at' # "raise"
            /\ ret' = "False"
            /\ engine' = engine

C15_MalformedRejected == [][C15_Step]_vars

\* The rotation order as claimed: the orientation after one step clockwise
\* and after one step counter-clockwise.
ClaimedClockwise ==
    [N |-> "NE", NE |-> "E", E |-> "SE", SE |-> "S",
     S |-> "SW", SW |-> "W", W |-> "NW", NW |-> "N"]

ClaimedCounterClockwise ==
    [N |-> "NW", NW |-> "W", W |-> "SW", SW |-> "S",
     S |-> "SE", SE |-> "E", E |-> "NE", NE |-> "N"]

Orientations == {DIRECTIONS[i] : i \in DOMAIN DIRECTIONS}

RECURSIVE RotatedTimes(_, _, _)
RotatedTimes(o, clockwise, n) ==
    IF n = 0 THEN o ELSE RotatedTimes(Rotated(o, clockwise), clockwise, n - 1)

\* Eight steps clockwise come back to the start, as does one step clockwise
\* followed by one step counter-clockwise.
C16_Cycle ==
    \A o \in Orientations :
        /\ RotatedTimes(o, TRUE, 8) = o
        /\ Rotated(Rotated(o, TRUE), FALSE) = o
        /\ Rotated(o, TRUE) = ClaimedClockwise[o]
        /\ Rotated(o, FALSE) = ClaimedCounterClockwise[o]

C16_Step ==
    RotatedNow =>
        \A cell \in FromCells, cw \in BOOLEAN :
            rotate_piece(cell, cw) =>
                /\ board'[cell].orientation =
                       IF cw THEN ClaimedClockwise[board[cell].orientation]
                             ELSE ClaimedCounterClockwise[board[cell].orientation]
                /\ \A c \in Cells \ {cell} : board'[c] = board[c]

\* C16: a successful rotation turns the piece by exactly one step in the
\* order N, NE, E, SE, S, SW, W, NW (clockwise the next entry, counter-
\* clockwise the previous one, wrapping at both ends); eight clockwise steps
\* are the identity, and so is a clockwise step followed by a counter-
\* clockwise one.
C16_RotationCycle == []C16_Cycle /\ [][C16_Step]_vars

\* A piece that faced N has just been rotated counter-clockwise past the end
\* of the order and faces NW.
C16_Witness ==
    /\ op = "rotate_piece"
    /\ ret = "True"
    /\ \E c \in Cells :
           /\ board[c].orientation = "NW"
           /\ InitialBoard(is_bottom_on_top, game_mode)[c].id = board[c].id
           /\ InitialBoard(is_bottom_on_top, game_mode)[c].orientation = "N"

\* C17: in 4-seat mode initialize_board places a formation for the left and
\* the right seat too, so that right after initialization each of the four
\* seats owns pieces on the board.
C17_SideFormations ==
    (game_mode = "4player" /\ JustInitialized) =>
        \A s \in Seats(game_mode) : \E c \in Cells : board[c].position = s

\* No capture list holds a piece of the seat the list belongs to.
C18_CapturedAreEnemies ==
    \A s \in DOMAIN captured :
        \A i \in DOMAIN captured[s] : captured[s][i].position # s

\* The piece on cell c was taken by the move just made: a piece of the
\* active seat, another seat than its own, stands on c and the piece is the
\* last entry of the active seat's capture list.
C18_TakenBy(c) ==
    /\ Moved
    /\ board'[c] # None
    /\ board'[c].position = current_player_position
    /\ board'[c].position # board[c].position
    /\ Len(captured'[current_player_position]) > 0
    /\ captured'[current_player_position]
           [Len(captured'[current_player_position])] = board[c]

\* A piece that is on the board before a step and not after it was on the
\* cell a piece of another seat has just moved onto, and is the last entry of
\* the mover's capture list; no move ends on a piece of the mover's seat.
C18_Step ==
    /\ board' # board =>
           LET remaining == {board'[x].id : x \in Cells}
           IN  \A c \in Cells :
                   (board[c] # None /\ board[c].id \notin remaining) =>
                       C18_TakenBy(c)
    /\ Moved =>
           \A from \in FromCells, to \in ToCells :
               move_piece(from, to) => board[to].position # board[from].position

\* C18: every piece in a seat's capture list belongs to another seat; a piece
\* leaves the board only because a piece of another seat moved onto its cell,
\* and a seat never moves onto, or captures, a piece of its own.
C18_OnlyEnemiesCaptured == []C18_CapturedAreEnemies /\ [][C18_Step]_vars

\* A piece is held by another seat and stands on no cell.
C18_Witness ==
    \E s \in DOMAIN captured :
        \E i \in DOMAIN captured[s] :
            /\ captured[s][i].position # s
            /\ CellsOf(captured[s][i].id) = {}

C20_Step ==
    Moved =>
        \A from \in FromCells, to \in ToCells :
            move_piece(from, to) =>
                /\ board'[to].orientation = board[from].orientation
                /\ board'[to].type = board[from].type
                /\ board'[to].position = board[from].position
                /\ \A c \in Cells \ {from, to} : board'[c] = board[c]

\* C20: a successful move leaves the moved piece's orientation, type and
\* owner as they were and changes no cell of the board other than the source
\* and the destination.
C20_MoveFrame == [][C20_Step]_vars

\* A piece has just been moved and stands, facing as it did at the start, on
\* another cell than its start cell.
C20_Witness ==
    /\ op = "move_piece"
    /\ exit_at = "end"
    /\ \E c \in Cells, start \in Cells :
           /\ c # start
           /\ board[c] # None
           /\ board[c] = InitialBoard(is_bottom_on_top, game_mode)[start]

\* The cells that hold no piece of the active seat.
NotOwn ==
    {c \in Cells : board[c] = None \/ board[c].position # current_player_position}

\* In the engine the legal-move set of such a cell is empty and its rotation
\* is refused at the ownership guard.
C19_EngineGuards ==
    \A c \in NotOwn :
        /\ get_valid_moves(c) = {}
        /\ \A cw \in BOOLEAN : rotate_exit(c, cw) = "not_own_piece"

\* In the legacy window the selected piece is on the board and belongs to
\* the current player, and without a selection no cell is highlighted.
C19_SelectedIsOwn ==
    /\ selected_piece # NoSelection =>
           /\ board_state[selected_piece] # NoPiece
           /\ board_state[selected_piece].color = current_player
    /\ selected_piece = NoSelection => valid_moves = {}

\* A rotate_piece call refused at the ownership guard changes no orientation;
\* an event of the legacy window changes the board only through the selected
\* piece, a piece of the current player: it turns on its cell or moves to a
\* highlighted cell.
C19_Step ==
    /\ (op' = "rotate_piece" /\ exit_at' = "not_own_piece") =>
           /\ ret' = "False"
           /\ board' = board
    /\ board' # board =>
           \A c \in Cells :
               board'[c].orientation # board[c].orientation =>
                   \/ board[c].position = current_player_position
                   \/ board'[c].position = current_player_position
                   \/ JustInitialized'
    /\ board_state' # board_state =>
           /\ selected_piece # NoSelection
           /\ board_state[selected_piece].color = current_player
           /\ \A c \in Cells :
                  board_state'[c] # board_state[c] =>
                      \/ c = selected_piece
                      \/ /\ op' = "mousePressEvent"
                         /\ c \in valid_moves
                         /\ board_state'[c].color = current_player

\* C19: only pieces of the active seat can be acted on.  The legal-move set
\* of an empty cell or of a piece of another seat is empty and a rotation of
\* such a cell fails without changing an orientation; in the window the
\* selected piece, the only one that is rotated or moved, always belongs to
\* the current player.
C19_OnlyActiveSeatActs ==
    /\ []C19_EngineGuards
    /\ []C19_SelectedIsOwn
    /\ [][C19_Step]_vars

\* After a move has passed the turn, a piece of the new current player is
\* selected in the window.
C19_Witness ==
    /\ op = "mousePressEvent"
    /\ exit_at = "select_piece"
    /\ current_player = "orange"
    /\ selected_piece # NoSelection
    /\ board_state[selected_piece].color = "orange"

\* The piece p turned to face o.
Facing(p, o) == [p EXCEPT !.orientation = o]

\* A successful rotate_piece leaves the active seat, the capture lists and
\* the flags alone, sets last_action, and changes one cell of the board, in
\* its orientation only.
C21_EngineStep ==
    RotatedNow =>
        /\ current_player_position' = current_player_position
        /\ captured' = captured
        /\ is_bottom_on_top' = is_bottom_on_top
        /\ game_mode' = game_mode
        /\ last_action' = "rotate"
        /\ Cardinality({c \in Cells : board'[c] # board[c]}) = 1
        /\ \A c \in Cells :
               /\ (board[c] = None) <=> (board'[c] = None)
               /\ board'[c] = Facing(board[c], board'[c].orientation)

\* A wheel event with a piece selected leaves the current player, the
\* selection and every other cell alone and changes the selected piece in
\* its orientation only.
C21_WindowStep ==
    (op' = "wheelEvent" /\ exit_at' = "end") =>
        /\ current_player' = current_player
        /\ selected_piece' = selected_piece
        /\ board_state'[selected_piece].orientation
               # board_state[selected_piece].orientation
        /\ board_state'[selected_piece] =
               Facing(board_state[selected_piece],
                      board_state'[selected_piece].orientation)
        /\ \A c \in Cells \ {selected_piece} : board_state'[c] = board_state[c]

\* C21: a successful rotation does not end the turn and moves nothing: the
\* active seat, the cell of every piece, every capture list and the
\* orientation of every other piece stay as they were; only the orientation
\* of the rotated piece, and last_action, change.
C21_RotationFrame == [][C21_EngineStep /\ C21_WindowStep]_vars

\* The selected piece has just been turned by the wheel and faces another
\* way than it was set up.
C21_Witness ==
    /\ op = "wheelEvent"
    /\ exit_at = "end"
    /\ selected_piece # NoSelection
    /\ board_state[selected_piece].orientation
           # PloyGame_setup_pieces[selected_piece].orientation

\* The game has just been constructed or re-initialized in 2-seat mode with
\* bottom at the top of the grid and bottom to act.
InitialPosition ==
    /\ JustInitialized
    /\ game_mode = "2player"
    /\ ~is_bottom_on_top
    /\ current_player_position = "bottom"
    /\ last_action = "None"

\* C22: in the initial 2-seat position the legal-move set of bottom's
\* Commander on (0, 4) is empty: its first step is onto (1, 4), where
\* bottom's own Shield stands.  The legacy window's Commander on (0, 4) has
\* no legal move either.
C22_CommanderBlocked ==
    /\ InitialPosition =>
           /\ board[<<0, 4>>].type = "Commander"
           /\ board[<<0, 4>>].position = "bottom"
           /\ get_valid_moves(<<0, 4>>) = {}
           /\ Walk(board, <<0, 4>>) = {}
           /\ <<0 + DIRECTION_VECTORS[board[<<0, 4>>].orientation][1],
                4 + DIRECTION_VECTORS[board[<<0, 4>>].orientation][2]>> = <<1, 4>>
           /\ board[<<1, 4>>].type = "Shield"
           /\ board[<<1, 4>>].position = "bottom"
    /\ board_state = PloyGame_setup_pieces =>
           /\ board_state[<<0, 4>>].type = "Commander"
           /\ PloyGame_highlight_valid_moves(board_state, <<0, 4>>) = {}

\* The board has been set up again in mid-game and bottom's Commander is
\* asked for its moves.
C22_Witness ==
    /\ InitialPosition
    /\ op = "initialize_board"
    /\ steps > 1
    /\ board[<<0, 4>>].type = "Commander"

\* The seats whose Commander stands on no cell of the board.
CommanderTaken ==
    {s \in Seats("2player") :
        \A c \in Cells : ~(board[c].type = "Commander" /\ board[c].position = s)}

\* C23: the game is over exactly when some seat's Commander has been
\* captured: checkGameOver is true in every state in which a Commander is
\* off the board and false in every state in which all are on it.
C23_OverIffCommanderTaken == check_game_over(captured) <=> (CommanderTaken # {})

\* The event just handled executed a move in the legacy window.
WindowMoved == op' = "mousePressEvent" /\ exit_at' = "move_piece"

\* The cell the move just executed ended on.
WindowTarget ==
    CHOOSE c \in Cells \ {selected_piece} : board_state'[c] # board_state[c]

C24_Step ==
    WindowMoved =>
        WindowTarget \in PloyGame_highlight_valid_moves(board_state, selected_piece)

\* C24: in the window every executed move ends on a cell of the piece's
\* legal-move set as computed from its orientation and the board at the
\* moment of the move; a destination that was legal only before the piece
\* was rotated is not accepted.
C24_MovesAreFresh == [][C24_Step]_vars

\* The colour of the piece the move just executed carried.
WindowMover == board_state[selected_piece].color

C25_Step ==
    /\ WindowMoved =>
           /\ WindowMover = current_player
           /\ current_player' = PloyGame_end_turn(current_player)
           /\ current_player' # current_player
           /\ selected_piece' = NoSelection
           /\ valid_moves' = {}
    /\ ~WindowMoved => current_player' = current_player

\* Between two events no piece is selected unless it is the current
\* player's: the turn never passes with a selection left behind.
C25_NothingHeldOver ==
    selected_piece # NoSelection =>
        board_state[selected_piece].color = current_player

\* C25: in the window every executed move ends the mover's turn at once: the
\* selection is cleared and the other player is to act before the next
\* event, so a player moves at most once per turn and successive moves are
\* made by alternating players; an event that moves nothing leaves the
\* current player as it was.
C25_MoveEndsTurn == []C25_NothingHeldOver /\ [][C25_Step]_vars

\* Orange has answered green's move with a move and green is to act again.
C25_Witness ==
    /\ op = "mousePressEvent"
    /\ exit_at = "move_piece"
    /\ current_player = "green"
    /\ \E c \in Cells :
           board_state[c].color = "orange" /\ PloyGame_setup_pieces[c] = NoPiece
    /\ \E c \in Cells :
           board_state[c].color = "green" /\ PloyGame_setup_pieces[c] = NoPiece

\* The pieces of the legacy board, and the cells that hold one.
WindowOccupied == {c \in Cells : board_state[c] # NoPiece}

\* C26: on the legacy board the row and column a piece caches are those of
\* the cell it is stored in, for every occupied cell, and a piece with row r
\* and column c is the one stored in (r, c), after any selections, rotations
\* and moves, captures included.
C26_CacheConsistent ==
    /\ \A c \in WindowOccupied :
           board_state[c].row = c[1] /\ board_state[c].col = c[2]
    /\ \A c \in WindowOccupied, e \in WindowOccupied :
           (board_state[c].row = board_state[e].row
                /\ board_state[c].col = board_state[e].col) => c = e
    /\ selected_piece # NoSelection => selected_piece \in WindowOccupied

\* A move has just captured a piece: one piece fewer stands on the board.
C26_Witness ==
    /\ op = "mousePressEvent"
    /\ exit_at = "move_piece"
    /\ Cardinality(WindowOccupied) < Len(PloyGame_setup_calls)

\* Pieces of a seat in a capture list, and the total over all lists.
RECURSIVE TakenFrom(_, _)
TakenFrom(list, seat) ==
    IF list = <<>> THEN 0
    ELSE (IF Head(list).position = seat THEN 1 ELSE 0)
             + TakenFrom(Tail(list), seat)

\* A seat's pieces: those it has on the board plus those of its pieces that
\* lie in any capture list.
PiecesOf(seat) ==
    Cardinality({c \in Occupied : board[c].position = seat})
        + TakenFrom(captured["bottom"], seat) + TakenFrom(captured["top"], seat)

PiecesInAll ==
    Cardinality(Occupied) + Len(captured["bottom"]) + Len(captured["top"])

\* C27 as claimed: in 2-seat mode the pieces on the board and in the capture
\* lists number 24 in every reachable state, 12 for each seat.
C27_TwentyFourConserved ==
    game_mode = "2player" =>
        /\ PiecesInAll = 24
        /\ \A seat \in {"bottom", "top"} : PiecesOf(seat) = 12

\* C27 (amended): in 2-seat mode the pieces on the board and in the capture
\* lists number 20 in every reachable state, 10 for each seat: no move,
\* rotation, end of turn, re-initialisation or flip spawns or loses a piece.
C27_TwentyConserved ==
    game_mode = "2player" =>
        /\ PiecesInAll = 20
        /\ \A seat \in {"bottom", "top"} : PiecesOf(seat) = 10

\* A capture has happened and the turn has passed on since.
C27_Witness ==
    /\ op = "end_turn"
    /\ \E seat \in {"bottom", "top"} : captured[seat] # <<>>

\* C28: set_players leaves the game state as it was: every capture list, the
\* board, the active seat, last_action and the set of seats are the same
\* after the call as before it, whichever position is configured.
C28_Step ==
    op' = "set_players" =>
        /\ captured' = captured
        /\ board' = board
        /\ current_player_position' = current_player_position
        /\ last_action' = last_action
        /\ DOMAIN captured' = DOMAIN captured

C28_SetPlayersKeepsState == [][C28_Step]_vars

\* C29: flip_board_orientation and initialize_board leave the active seat
\* and last_action as they were: the turn stays with the seat that was
\* active before the call.
C29_Step ==
    op' \in {"initialize_board", "flip_board_orientation"} =>
        /\ current_player_position' = current_player_position
        /\ last_action' = last_action

C29_TurnKeptAcrossReset == [][C29_Step]_vars

\* The board has been rebuilt in the middle of top's turn, after top acted.
C29_Witness ==
    /\ op \in {"initialize_board", "flip_board_orientation"}
    /\ current_player_position = "top"
    /\ last_action # "None"

\* C30: end_turn changes nothing but the active seat and last_action: the
\* board with the position and orientation of every piece, every capture
\* list, the game mode and is_bottom_on_top are the same after the call as
\* before it.
C30_Step ==
    op' = "end_turn" =>
        /\ board' = board
        /\ captured' = captured
        /\ game_mode' = game_mode
        /\ is_bottom_on_top' = is_bottom_on_top

C30_EndTurnFrame == [][C30_Step]_vars

\* The turn has passed on in a 4-seat game on a flipped board with a piece
\* away from its initial cell.
C30_Witness ==
    /\ op = "end_turn"
    /\ game_mode = "4player"
    /\ is_bottom_on_top
    /\ board # InitialBoard(is_bottom_on_top, game_mode)

\* C31: between input events, in the legacy window and in PloyGameUI alike,
\* no valid move is cached while nothing is selected, a selected piece is on
\* the board and belongs to the player whose turn it is, and nothing is
\* selected after a move has been made.
C31_SelectionInvariant ==
    /\ selected_piece = NoSelection => valid_moves = {}
    /\ selected_piece # NoSelection =>
           /\ selected_piece \in WindowOccupied
           /\ board_state[selected_piece].color = current_player
    /\ (op = "mousePressEvent" /\ exit_at = "move_piece") =>
           selected_piece = NoSelection
    /\ selected_cell = NoSelection => highlighted = {}
    /\ selected_cell # NoSelection =>
           /\ board[selected_cell] # None
           /\ board[selected_cell].position = current_player_position
    /\ (op = "PloyGameUI.mousePressEvent" /\ exit_at = "end_turn") =>
           selected_cell = NoSelection

\* Orange has selected a piece with somewhere to go, after green's move.
C31_Witness ==
    /\ op = "mousePressEvent"
    /\ exit_at = "select_piece"
    /\ current_player = "orange"
    /\ valid_moves # {}
    /\ board_state # PloyGame_setup_pieces

\* The orientation k entries after o in DIRECTIONS, around the cycle.
StepsOn(o, k) == DIRECTIONS[((DirIndex(o) + k) % Len(DIRECTIONS)) + 1]

\* Vector w lies an eighth of a turn clockwise from v, as seen on the board
\* with rows growing downwards: the turn from v to w is to the right and
\* the two do not point apart.
EighthClockwise(v, w) ==
    /\ v[1] * w[2] - v[2] * w[1] < 0
    /\ v[1] * w[1] + v[2] * w[2] > 0

\* C32: DIRECTION_VECTORS gives the eight orientations eight distinct
\* non-zero unit vectors, each an eighth of a turn clockwise from the one
\* listed before it in DIRECTIONS, and orientation_map is an involution that
\* sends every orientation, those of the pieces on the board included, to
\* the one four entries further on, whose vector is the negated vector.
C32_TablesConsistent ==
    /\ Len(DIRECTIONS) = 8
    /\ DOMAIN DIRECTION_VECTORS = Orientations
    /\ DOMAIN orientation_map = Orientations
    /\ \A c \in Occupied : board[c].orientation \in Orientations
    /\ \A o \in Orientations :
           LET v == DIRECTION_VECTORS[o]
           IN  /\ v # <<0, 0>>
               /\ v[1] \in -1 .. 1 /\ v[2] \in -1 .. 1
               /\ \A p \in Orientations : DIRECTION_VECTORS[p] = v => p = o
               /\ EighthClockwise(v, DIRECTION_VECTORS[StepsOn(o, 1)])
               /\ orientation_map[orientation_map[o]] = o
               /\ orientation_map[o] = StepsOn(o, 4)
               /\ DIRECTION_VECTORS[orientation_map[o]] = <<-v[1], -v[2]>>

\* Two pieces on the board face opposite diagonals after a rotation.
C32_Witness ==
    /\ op = "rotate_piece"
    /\ exit_at = "end"
    /\ \E c \in Occupied, e \in Occupied :
           /\ board[c].orientation \notin Cardinal
           /\ board[e].orientation = orientation_map[board[c].orientation]
====
